---- MODULE Spec2Model ----
(***************************************************************************)
(* A model of the CHIP-8 emulator: the Cpu (cpu.rs) with its Memory        *)
(* (memory.rs), its Graphics device (graphics.rs) and its Input device     *)
(* (input.rs), wired as by Interconnect::new_test (interconnect.rs).       *)
(*                                                                         *)
(* Rust's fixed-width integers are modelled as naturals kept in range      *)
(* explicitly.  A panic (index out of bounds, or an arithmetic overflow in *)
(* a build with overflow checks) is the value of `fault`; a faulted        *)
(* machine takes no further step.                                          *)
(***************************************************************************)
EXTENDS Integers, Sequences, FiniteSets, TLC

VARIABLES
    pc,               \* Cpu.pc: u16
    stack,            \* Cpu.stack: [u16; 16]
    sp,               \* Cpu.sp: u8
    v,                \* Cpu.v: [u8; 16]
    i,                \* Cpu.i: u16
    dt,               \* Cpu.dt: u8
    ram,              \* Memory.ram: [u8; 4096]
    memory,           \* TestDisplay.memory / Display.memory: [u8; DISPLAY_SIZE]
    state,            \* TestKeyboard.state / Keyboard.state: [bool; 16]
    close_requested,  \* TestKeyboard.close_requested / Keyboard.close_requested
    last_input,       \* Keyboard.last_input: u8
    input_dirty,      \* Keyboard.input_dirty
    at,               \* where Cpu::run is: "check", "wait", "inputs", "exited"
    opcode,           \* the opcode last handed to process_opcode (NoOpcode: none yet)
    collision,        \* the value returned by the last Graphics::draw
    fault,            \* "none", or the panic that ended the program
    overflow_checks,  \* the build: TRUE panics on integer overflow, FALSE wraps
    rom               \* the program image handed to Memory::new

vars == <<pc, stack, sp, v, i, dt, ram, memory, state, close_requested,
          last_input, input_dirty, at, opcode, collision, fault,
          overflow_checks, rom>>

----------------------------------------------------------------------------
(* Integer helpers for Rust's u8 / i8 / u16 arithmetic *)

RECURSIVE bit_and(_, _)
\* a & b
bit_and(a, b) ==
    IF a = 0 \/ b = 0 THEN 0
    ELSE (IF a % 2 = 1 /\ b % 2 = 1 THEN 1 ELSE 0) + 2 * bit_and(a \div 2, b \div 2)

RECURSIVE bit_or(_, _)
\* a | b
bit_or(a, b) ==
    IF a = 0 THEN b
    ELSE IF b = 0 THEN a
    ELSE (IF a % 2 = 1 \/ b % 2 = 1 THEN 1 ELSE 0) + 2 * bit_or(a \div 2, b \div 2)

RECURSIVE bit_xor(_, _)
\* a ^ b
bit_xor(a, b) ==
    IF a = 0 THEN b
    ELSE IF b = 0 THEN a
    ELSE (IF a % 2 # b % 2 THEN 1 ELSE 0) + 2 * bit_xor(a \div 2, b \div 2)

\* `b as i8` for a u8 b: the same bits read as two's complement
as_i8(b) == IF b >= 128 THEN b - 256 ELSE b

\* `r as u8` for an i8 r
as_u8(r) == r % 256

\* an i8 result that left -128..127, as a build without overflow checks wraps it
wrap_i8(r) == ((r + 128) % 256) - 128

----------------------------------------------------------------------------
(* memory.rs *)

FONTSET ==
    << \hF0, \h90, \h90, \h90, \hF0,
       \h20, \h60, \h20, \h20, \h70,
       \hF0, \h10, \hF0, \h80, \hF0,
       \hF0, \h10, \hF0, \h10, \hF0,
       \h90, \h90, \hF0, \h10, \h10,
       \hF0, \h80, \hF0, \h10, \hF0,
       \hF0, \h80, \hF0, \h90, \hF0,
       \hF0, \h10, \h20, \h40, \h40,
       \hF0, \h90, \hF0, \h90, \hF0,
       \hF0, \h90, \hF0, \h10, \hF0,
       \hF0, \h90, \hF0, \h90, \h90,
       \hE0, \h90, \hE0, \h90, \hE0,
       \hF0, \h80, \h80, \h80, \hF0,
       \hE0, \h90, \h90, \h90, \hE0,
       \hF0, \h80, \hF0, \h80, \hF0,
       \hF0, \h80, \hF0, \h80, \h80 >>

END_RESERVED == 512

RAM_SIZE == 4096

\* dump_fontset: memory[idx] = FONTSET[idx] for idx in 0..FONTSET.len()
dump_fontset(mem) ==
    [a \in 0..(RAM_SIZE - 1) |-> IF a < Len(FONTSET) THEN FONTSET[a + 1] ELSE mem[a]]

\* a dump_program that starts one byte late: memory[idx + END_RESERVED + 1]
dump_program_late(mem, image) ==
    [a \in 0..(RAM_SIZE - 1) |->
        IF a > END_RESERVED /\ a - END_RESERVED <= Len(image)
        THEN image[a - END_RESERVED]
        ELSE mem[a]]

\* dump_program: memory[idx + END_RESERVED] = rom[idx] for idx in 0..rom.len();
\* the caller has checked that every index is in range.
dump_program(mem, image) ==
    [a \in 0..(RAM_SIZE - 1) |->
        IF a >= END_RESERVED /\ a - END_RESERVED < Len(image)
        THEN image[a - END_RESERVED + 1]
        ELSE mem[a]]

\* Memory::new: a zeroed array, then the font, then the program.  Writing
\* memory[idx + END_RESERVED] panics as soon as the index leaves the array.
Memory_new_panics(image) == Len(image) + END_RESERVED > RAM_SIZE

Memory_new(image) ==
    dump_program(dump_fontset([a \in 0..(RAM_SIZE - 1) |-> 0]), image)

\* a read_word that takes the low byte first
read_word_little_endian(mem, addr) ==
    bit_or(mem[addr], (mem[addr + 1] * 2 ^ 8) % 2 ^ 16)

\* Memory::read_word, for addr and addr + 1 in range:
\* (self.ram[addr] as u16) << 8 | (self.ram[addr + 1] as u16)
read_word(mem, addr) ==
    bit_or((mem[addr] * 2 ^ 8) % 2 ^ 16, mem[addr + 1])

----------------------------------------------------------------------------
(* graphics.rs *)

WIDTH == 64

HEIGHT == 32

DISPLAY_SIZE == WIDTH * HEIGHT

\* TestDisplay::new_test: memory: [0; DISPLAY_SIZE]
new_test_display == [a \in 0..(DISPLAY_SIZE - 1) |-> 0]

\* get_pixel: self.memory[x + y * WIDTH] == 1
get_pixel(m, x, y) == m[x + y * WIDTH] = 1

\* set_pixel: self.memory[x + y * WIDTH] = on as u8
set_pixel(m, x, y, on) == [m EXCEPT ![x + y * WIDTH] = IF on THEN 1 ELSE 0]

\* a cls whose loops start at 1: column 0 and row 0 are not cleared
cls_from_one(m) == [a \in DOMAIN m |-> IF a % WIDTH = 0 \/ a \div WIDTH = 0 THEN m[a] ELSE 0]

\* Graphics::cls: set_pixel(x, y, false) for every x and y
cls(m) == [a \in DOMAIN m |-> 0]

\* row >> (7 - i) & 0x01
sprite_bit(row, b) == (row \div (2 ^ (7 - b))) % 2

\* an inner loop body whose collision flag is that of the last pixel drawn only
draw_pixel_last_hit_decides(d, x, y, sprite, j, b) ==
    LET curr == sprite_bit(sprite[j + 1], b)
        xi   == (x + b) % WIDTH
        yj   == (y + j) % HEIGHT
        prev == get_pixel(d.memory, xi, yj)
    IN  IF curr = 1
        THEN [memory    |-> set_pixel(d.memory, xi, yj, (curr = 1) # prev),
              collision |-> prev]
        ELSE d

\* an inner loop body that turns the pixel on instead of toggling it
draw_pixel_sets_on(d, x, y, sprite, j, b) ==
    LET curr == sprite_bit(sprite[j + 1], b)
        xi   == (x + b) % WIDTH
        yj   == (y + j) % HEIGHT
        prev == get_pixel(d.memory, xi, yj)
    IN  IF curr = 1
        THEN [memory    |-> set_pixel(d.memory, xi, yj, TRUE),
              collision |-> d.collision \/ prev]
        ELSE d

\* The body of draw's inner loop for row j and bit b, on d = [memory, collision].
draw_pixel(d, x, y, sprite, j, b) ==
    LET curr == sprite_bit(sprite[j + 1], b)
        xi   == (x + b) % WIDTH
        yj   == (y + j) % HEIGHT
        prev == get_pixel(d.memory, xi, yj)
    IN  IF curr = 1
        THEN [memory    |-> set_pixel(d.memory, xi, yj, (curr = 1) # prev),
              collision |-> d.collision \/ prev]
        ELSE d

\* The inner loop of draw for row j, from bit b on: for i in 0..8.  (The set
\* with one element makes TLC compute each intermediate display once.)
RECURSIVE draw_bits(_, _, _, _, _, _)
draw_bits(d, x, y, sprite, j, b) ==
    IF b >= 8 THEN d
    ELSE CHOOSE r \in {draw_bits(e, x, y, sprite, j, b + 1) :
                          e \in {draw_pixel(d, x, y, sprite, j, b)}} : TRUE

\* The outer loop of draw, from row j on: for j in 0..rows.
RECURSIVE draw_from(_, _, _, _, _)
draw_from(d, x, y, sprite, j) ==
    IF j >= Len(sprite) THEN d
    ELSE CHOOSE r \in {draw_from(e, x, y, sprite, j + 1) :
                          e \in {draw_bits(d, x, y, sprite, j, 0)}} : TRUE

\* TestDisplay::draw / Display::draw: the new display memory and the
\* collision flag returned.
draw(m, x, y, sprite) ==
    draw_from([memory |-> m, collision |-> FALSE], x, y, sprite, 0)

----------------------------------------------------------------------------
(* input.rs *)

\* The Keyboard as one value
Keyboard ==
    [state |-> state, last_input |-> last_input, input_dirty |-> input_dirty,
     close_requested |-> close_requested]

\* Keyboard::set_input
set_input(k, key, value) ==
    [k EXCEPT !.state[key] = value, !.last_input = key, !.input_dirty = TRUE]

\* The events the event pump delivers: Quit, KeyDown and KeyUp of a key of the
\* pad, and any other event (a mouse move, a key outside the pad)
KeyDown(key) == [type |-> "KeyDown", key |-> key]

KeyUp(key) == [type |-> "KeyUp", key |-> key]

Quit == [type |-> "Quit", key |-> 0]

OtherEvent == [type |-> "Other", key |-> 0]

\* a match whose Quit arm marks the input dirty as a key event does
handle_event_quit_dirties(k, e) ==
    CASE e.type = "Quit"    -> [k EXCEPT !.close_requested = TRUE, !.input_dirty = TRUE]
      [] e.type = "KeyDown" -> set_input(k, e.key, TRUE)
      [] e.type = "KeyUp"   -> set_input(k, e.key, FALSE)
      [] OTHER              -> k

\* one arm of the match of Keyboard::handle_inputs
handle_event(k, e) ==
    CASE e.type = "Quit"    -> [k EXCEPT !.close_requested = TRUE]
      [] e.type = "KeyDown" -> set_input(k, e.key, TRUE)
      [] e.type = "KeyUp"   -> set_input(k, e.key, FALSE)
      [] OTHER              -> k

\* Keyboard::handle_inputs on the events polled: for event in events
RECURSIVE handle_inputs(_, _)
handle_inputs(k, events) ==
    IF events = << >> THEN k
    ELSE CHOOSE r \in {handle_inputs(e, Tail(events)) :
                          e \in {handle_event(k, Head(events))}} : TRUE

\* a close_requested() that never reports the request
close_requested_never(k) == FALSE

\* Keyboard::close_requested
is_close_requested(k) == k.close_requested

----------------------------------------------------------------------------
(* cpu.rs *)

NoOpcode == -1

\* The machine as one value: the Cpu's fields, its interconnect's memory,
\* display and keyboard, and the panic (if any) that ended it.
Cpu ==
    [pc |-> pc, stack |-> stack, sp |-> sp, v |-> v, i |-> i, dt |-> dt,
     ram |-> ram, memory |-> memory, state |-> state,
     collision |-> collision, fault |-> fault]

Panic(c, kind) == [c EXCEPT !.fault = kind]

\* self.pc += k on a u16
pc_add(c, k) ==
    IF c.pc + k > 65535
    THEN IF overflow_checks THEN Panic(c, "Overflow")
         ELSE [c EXCEPT !.pc = (c.pc + k) % 65536]
    ELSE [c EXCEPT !.pc = c.pc + k]

\* a skip that advances by one byte instead of one instruction
skip_one_byte(cond) == IF cond THEN 1 ELSE 0

\* `if cond { 2 } else { 0 }`
skip(cond) == IF cond THEN 2 ELSE 0

\* a handle_timers that decrements a timer that is already 0, wrapping to 255
handle_timers_wraps(c) == [c EXCEPT !.dt = (c.dt + 255) % 256]

\* a handle_timers that leaves the timer alone
handle_timers_never(c) == c

\* Cpu::handle_timers
handle_timers(c) == IF c.dt > 0 THEN [c EXCEPT !.dt = c.dt - 1] ELSE c

\* a RET that returns to the oldest entry of the stack, not the newest
op_ret_oldest_first(c) ==
    IF c.sp = 0
    THEN IF overflow_checks THEN Panic(c, "Overflow")
         ELSE Panic([c EXCEPT !.sp = 255], "OutOfBounds")
    ELSE IF c.sp - 1 > 15 THEN Panic([c EXCEPT !.sp = c.sp - 1], "OutOfBounds")
    ELSE [c EXCEPT !.sp = c.sp - 1, !.pc = c.stack[0]]

\* (0, 0, 0xE, 0xE) RET: self.sp = self.sp - 1; self.pc = self.stack[self.sp]
op_ret(c) ==
    IF c.sp = 0
    THEN IF overflow_checks THEN Panic(c, "Overflow")
         ELSE Panic([c EXCEPT !.sp = 255], "OutOfBounds")
    ELSE IF c.sp - 1 > 15 THEN Panic([c EXCEPT !.sp = c.sp - 1], "OutOfBounds")
    ELSE [c EXCEPT !.sp = c.sp - 1, !.pc = c.stack[c.sp - 1]]

\* a CALL that wraps the stack index instead of panicking on a full stack
op_call_wraps_stack(c, nnn) ==
    [c EXCEPT !.stack[c.sp % 16] = c.pc, !.sp = c.sp + 1, !.pc = nnn]

\* a CALL that pushes the address of the CALL itself, not of the next instruction
op_call_pushes_own_address(c, nnn) ==
    IF c.sp > 15 THEN Panic(c, "OutOfBounds")
    ELSE [c EXCEPT !.stack[c.sp] = c.pc - 2, !.sp = c.sp + 1, !.pc = nnn]

\* (0x2, _, _, _) CALL: self.stack[self.sp] = self.pc; self.sp = self.sp + 1;
\* self.pc = nnn  (self.pc was already advanced by 2)
op_call(c, nnn) ==
    IF c.sp > 15 THEN Panic(c, "OutOfBounds")
    ELSE [c EXCEPT !.stack[c.sp] = c.pc, !.sp = c.sp + 1, !.pc = nnn]

\* (0x3, _, _, _) SE Vx KK
op_se_vx_byte(c, vx, kk) == pc_add(c, skip(vx = kk))

\* (0x4, _, _, _) SNE Vx KK
op_sne_vx_byte(c, vx, kk) == pc_add(c, skip(vx # kk))

\* (0x5, _, _, _) SE Vx Vy
op_se_vx_vy(c, vx, vy) == pc_add(c, skip(vx = vy))

\* (0x9, _, _, _) SNE Vx Vy
op_sne_vx_vy(c, vx, vy) == pc_add(c, skip(vx # vy))

\* an ADD Vx, Vy whose carry test is off by one: res >= 0xFF
op_add_vx_vy_carry_at_255(c, x, y) ==
    LET res == c.v[x] + c.v[y]
        v1  == [c.v EXCEPT ![15] = IF res >= 255 THEN 1 ELSE 0]
    IN  [c EXCEPT !.v = [v1 EXCEPT ![x] = res % 256]]

\* (0x8, _, _, 0x4) ADD Vx, Vy: res as u16; v[0xF] = carry; v[x] = res & 0xFF
op_add_vx_vy(c, x, y) ==
    LET res == c.v[x] + c.v[y]
        v1  == [c.v EXCEPT ![15] = IF res > 255 THEN 1 ELSE 0]
    IN  [c EXCEPT !.v = [v1 EXCEPT ![x] = res % 256]]

\* res = a as i8 - b as i8; v[x] = res as u8; v[0xF] = if res < 0 { 1 } else { 0 }
sub_i8(c, x, a, b) ==
    LET exact == as_i8(a) - as_i8(b)
        res   == wrap_i8(exact)
        v1    == [c.v EXCEPT ![x] = as_u8(res)]
    IN  IF exact # res /\ overflow_checks THEN Panic(c, "Overflow")
        ELSE [c EXCEPT !.v = [v1 EXCEPT ![15] = IF res < 0 THEN 1 ELSE 0]]

\* (0x8, _, _, 0x5) SUB Vx, Vy
op_sub_vx_vy(c, x, y) == sub_i8(c, x, c.v[x], c.v[y])

\* (0x8, _, _, 0x7) SUBN Vx, Vy
op_subn_vx_vy(c, x, y) == sub_i8(c, x, c.v[y], c.v[x])

\* (0x8, _, _, 0x6) SHR Vx: v[0xF] = v[x] & 0x1; v[x] >>= 1
op_shr_vx(c, x) ==
    LET v1 == [c.v EXCEPT ![15] = bit_and(c.v[x], 1)]
    IN  [c EXCEPT !.v = [v1 EXCEPT ![x] = v1[x] \div 2]]

\* a SHL that sets VF to the bit shifted out, 0 or 1
op_shl_vx_flag_is_bit(c, x) ==
    LET v1 == [c.v EXCEPT ![15] = c.v[x] \div 128]
    IN  [c EXCEPT !.v = [v1 EXCEPT ![x] = (v1[x] * 2) % 256]]

\* (0x8, _, _, 0xE) SHL Vx: v[0xF] = v[x] & 0x80; v[x] <<= 1
op_shl_vx(c, x) ==
    LET v1 == [c.v EXCEPT ![15] = bit_and(c.v[x], 128)]
    IN  [c EXCEPT !.v = [v1 EXCEPT ![x] = (v1[x] * 2) % 256]]

\* a DRW that draws the rows of the sprite that are in the array and leaves
\* out the others
op_drw_clamps(c, vx, vy, n) ==
    LET rows   == IF c.i >= RAM_SIZE THEN 0
                  ELSE IF c.i + n > RAM_SIZE THEN RAM_SIZE - c.i ELSE n
        sprite == [k \in 1..rows |-> c.ram[c.i + k - 1]]
        d      == draw(c.memory, vx, vy, sprite)
    IN  [c EXCEPT !.memory = d.memory, !.collision = d.collision,
                  !.v[15] = IF d.collision THEN 1 ELSE 0]

\* a DRW that sets VF on a collision and never clears it
op_drw_flag_sticks(c, vx, vy, n) ==
    IF c.i + n > RAM_SIZE THEN Panic(c, "OutOfBounds")
    ELSE LET sprite == [k \in 1..n |-> c.ram[c.i + k - 1]]
             d      == draw(c.memory, vx, vy, sprite)
         IN  [c EXCEPT !.memory = d.memory, !.collision = d.collision,
                       !.v[15] = IF d.collision THEN 1 ELSE @]

\* (0xD, _, _, _) DRW: sprite = memory.get_slice(i, n);
\* collision = graphics.draw(vx, vy, sprite); v[0xF] = collision as 0/1
op_drw(c, vx, vy, n) ==
    IF c.i + n > RAM_SIZE THEN Panic(c, "OutOfBounds")
    ELSE LET sprite == [k \in 1..n |-> c.ram[c.i + k - 1]]
             d      == draw(c.memory, vx, vy, sprite)
         IN  [c EXCEPT !.memory = d.memory, !.collision = d.collision,
                       !.v[15] = IF d.collision THEN 1 ELSE 0]

\* Input::is_key_down: self.state[key as usize]
key_in_range(key) == key < 16

\* a SKP that looks up the key of the low nibble of Vx
op_skp_vx_low_nibble(c, vx) == pc_add(c, IF c.state[vx % 16] THEN 2 ELSE 0)

\* (0xE, _, 0x9, 0xE) SKP Vx
op_skp_vx(c, vx) ==
    IF ~key_in_range(vx) THEN Panic(c, "OutOfBounds")
    ELSE pc_add(c, IF c.state[vx] THEN 2 ELSE 0)

\* (0xE, _, 0xA, 0x1) SKNP Vx
op_sknp_vx(c, vx) ==
    IF ~key_in_range(vx) THEN Panic(c, "OutOfBounds")
    ELSE pc_add(c, IF c.state[vx] THEN 0 ELSE 2)

\* (0xF, _, 0x1, 0xE) ADD I, Vx: self.i = self.i + self.v[x] as u16
op_add_i_vx(c, x) ==
    IF c.i + c.v[x] > 65535
    THEN IF overflow_checks THEN Panic(c, "Overflow")
         ELSE [c EXCEPT !.i = (c.i + c.v[x]) % 65536]
    ELSE [c EXCEPT !.i = c.i + c.v[x]]

\* Memory::write, which panics outside the array
mem_write(c, addr, byte) ==
    IF c.fault # "none" THEN c
    ELSE IF addr >= RAM_SIZE THEN Panic(c, "OutOfBounds")
    ELSE [c EXCEPT !.ram[addr] = byte]

\* a LD B, Vx whose tens digit is not reduced modulo 10
op_ld_b_vx_tens_unreduced(c, vx) ==
    mem_write(mem_write(mem_write(c, c.i, vx \div 100),
                        c.i + 1, vx \div 10),
              c.i + 2, (vx % 100) % 10)

\* a LD [I], Vx that copies x registers instead of x + 1
op_ld_i_vx_one_short(c, x) ==
    IF c.i + x + 1 > RAM_SIZE THEN Panic(c, "OutOfBounds")
    ELSE [c EXCEPT !.ram = [a \in DOMAIN c.ram |->
                               IF a >= c.i /\ a < c.i + x
                               THEN c.v[a - c.i] ELSE c.ram[a]]]

\* (0xF, _, 0x3, 0x3) LD B, Vx: three writes, at i, i + 1 and i + 2
op_ld_b_vx(c, vx) ==
    mem_write(mem_write(mem_write(c, c.i, vx \div 100),
                        c.i + 1, (vx \div 10) % 10),
              c.i + 2, (vx % 100) % 10)

\* (0xF, _, 0x5, 0x5) LD [I], Vx:
\* memory.get_slice_mut(i, x + 1).copy_from_slice(&v[0..x + 1])
op_ld_i_vx(c, x) ==
    IF c.i + x + 1 > RAM_SIZE THEN Panic(c, "OutOfBounds")
    ELSE [c EXCEPT !.ram = [a \in DOMAIN c.ram |->
                               IF a >= c.i /\ a < c.i + x + 1
                               THEN c.v[a - c.i] ELSE c.ram[a]]]

\* (0xF, _, 0x6, 0x5) LD Vx, [I]:
\* v[0..x + 1].copy_from_slice(memory.get_slice_mut(i, x + 1))
op_ld_vx_i(c, x) ==
    IF c.i + x + 1 > RAM_SIZE THEN Panic(c, "OutOfBounds")
    ELSE [c EXCEPT !.v = [r \in DOMAIN c.v |->
                             IF r < x + 1 THEN c.ram[c.i + r] ELSE c.v[r]]]

\* The match of process_opcode, first matching arm first, on the machine c1
\* whose pc has been advanced.  rnd is the byte random::<u8>() returns and
\* key the key wait_input() returns.
dispatch(c1, op, rnd, key) ==
    LET x    == (op \div 256) % 16
        y    == (op \div 16) % 16
        vx   == c1.v[x]
        vy   == c1.v[y]
        nnn  == op % 4096
        kk   == op % 256
        n    == op % 16
        op_1 == op \div 4096
        op_2 == x
        op_3 == y
        op_4 == n
    IN  CASE op_1 = 0 /\ op_2 = 0 /\ op_3 = 14 /\ op_4 = 0  ->
                 [c1 EXCEPT !.memory = cls(c1.memory)]
          [] op_1 = 0 /\ op_2 = 0 /\ op_3 = 14 /\ op_4 = 14 -> op_ret(c1)
          [] op_1 = 1  -> [c1 EXCEPT !.pc = nnn]
          [] op_1 = 2  -> op_call(c1, nnn)
          [] op_1 = 3  -> op_se_vx_byte(c1, vx, kk)
          [] op_1 = 4  -> op_sne_vx_byte(c1, vx, kk)
          [] op_1 = 5  -> op_se_vx_vy(c1, vx, vy)
          [] op_1 = 6  -> [c1 EXCEPT !.v[x] = kk]
          [] op_1 = 7  -> [c1 EXCEPT !.v[x] = (vx + kk) % 256]
          [] op_1 = 8 /\ op_4 = 0  -> [c1 EXCEPT !.v[x] = c1.v[y]]
          [] op_1 = 8 /\ op_4 = 1  -> [c1 EXCEPT !.v[x] = bit_or(c1.v[x], c1.v[y])]
          [] op_1 = 8 /\ op_4 = 2  -> [c1 EXCEPT !.v[x] = bit_and(c1.v[x], c1.v[y])]
          [] op_1 = 8 /\ op_4 = 3  -> [c1 EXCEPT !.v[x] = bit_xor(c1.v[x], c1.v[y])]
          [] op_1 = 8 /\ op_4 = 4  -> op_add_vx_vy(c1, x, y)
          [] op_1 = 8 /\ op_4 = 5  -> op_sub_vx_vy(c1, x, y)
          [] op_1 = 8 /\ op_4 = 6  -> op_shr_vx(c1, x)
          [] op_1 = 8 /\ op_4 = 7  -> op_subn_vx_vy(c1, x, y)
          [] op_1 = 8 /\ op_4 = 14 -> op_shl_vx(c1, x)
          [] op_1 = 9  -> op_sne_vx_vy(c1, vx, vy)
          [] op_1 = 10 -> [c1 EXCEPT !.i = nnn]
          [] op_1 = 11 -> [c1 EXCEPT !.pc = nnn + c1.v[0]]
          [] op_1 = 12 -> [c1 EXCEPT !.v[x] = bit_and(rnd, kk)]
          [] op_1 = 13 -> op_drw(c1, vx, vy, n)
          [] op_1 = 14 /\ op_3 = 9 /\ op_4 = 14  -> op_skp_vx(c1, vx)
          [] op_1 = 14 /\ op_3 = 10 /\ op_4 = 1  -> op_sknp_vx(c1, vx)
          [] op_1 = 15 /\ op_3 = 0 /\ op_4 = 7   -> [c1 EXCEPT !.v[x] = c1.dt]
          [] op_1 = 15 /\ op_3 = 0 /\ op_4 = 10  -> [c1 EXCEPT !.v[x] = key]
          [] op_1 = 15 /\ op_3 = 1 /\ op_4 = 5   -> [c1 EXCEPT !.dt = c1.v[x]]
          [] op_1 = 15 /\ op_3 = 1 /\ op_4 = 14  -> op_add_i_vx(c1, x)
          [] op_1 = 15 /\ op_3 = 2 /\ op_4 = 9   -> [c1 EXCEPT !.i = vx * 5]
          [] op_1 = 15 /\ op_3 = 3 /\ op_4 = 3   -> op_ld_b_vx(c1, vx)
          [] op_1 = 15 /\ op_3 = 5 /\ op_4 = 5   -> op_ld_i_vx(c1, x)
          [] op_1 = 15 /\ op_3 = 6 /\ op_4 = 5   -> op_ld_vx_i(c1, x)
          [] OTHER -> c1

\* a process_opcode that advances pc by one byte before the match
process_opcode_advances_one_byte(c, op, rnd, key) ==
    LET c1 == pc_add(c, 1)
    IN  IF c1.fault # "none" THEN c1 ELSE dispatch(c1, op, rnd, key)

\* a process_opcode that clears the key states once the instruction is done
process_opcode_clears_keys(c, op, rnd, key) ==
    LET c1 == pc_add(c, 2)
    IN  IF c1.fault # "none" THEN c1
        ELSE [dispatch(c1, op, rnd, key) EXCEPT !.state = [k \in 0..15 |-> FALSE]]

\* Cpu::process_opcode: decode, self.pc += 2, then the match.
process_opcode(c, op, rnd, key) ==
    LET c1 == pc_add(c, 2)
    IN  IF c1.fault # "none" THEN c1 ELSE dispatch(c1, op, rnd, key)

\* Cpu::execute_cycle: handle_timers, then read_word(pc), which panics unless
\* pc and pc + 1 are both in the array, then process_opcode.
fetch_panics(c) == c.pc + 1 >= RAM_SIZE

execute_cycle(c, rnd, key) ==
    LET c1 == handle_timers(c)
    IN  IF fetch_panics(c1) THEN Panic(c1, "OutOfBounds")
        ELSE process_opcode(c1, read_word(c1.ram, c1.pc), rnd, key)

----------------------------------------------------------------------------
(* Construction and the operations, as actions *)

\* cpu.rs tests::get_cpu: vec![0_u8; 10]
TestRom == [k \in 1..10 |-> 0]

\* Interconnect::new_test(rom) or Interconnect::new(rom) followed by Cpu::new,
\* for a rom of `roms` that Memory::new accepts, in either build; Cpu::run is
\* about to make its first check.
Construct(roms) ==
    /\ rom \in roms
    /\ ~Memory_new_panics(rom)
    /\ ram = Memory_new(rom)
    /\ memory = new_test_display
    /\ state = [k \in 0..15 |-> FALSE]
    /\ close_requested = FALSE
    /\ last_input = 0
    /\ input_dirty = FALSE
    /\ at = "check"
    /\ pc = 0
    /\ stack = [k \in 0..15 |-> 0]
    /\ sp = 0
    /\ v = [k \in 0..15 |-> 0]
    /\ i = 0
    /\ dt = 0
    /\ opcode = NoOpcode
    /\ collision = FALSE
    /\ fault = "none"
    /\ overflow_checks \in BOOLEAN

\* The bytes random::<u8>() is taken to return
RandomBytes == {0, \hA5, \hFF}

\* Cpu::process_opcode(op) on the test interconnect, whose wait_input returns 0
ProcessOpcode(op) ==
    /\ fault = "none"
    /\ \E rnd \in (IF op \div 4096 = 12 THEN RandomBytes ELSE {0}) :
         \E r \in {process_opcode(Cpu, op, rnd, 0)} :
             /\ pc' = r.pc
             /\ stack' = r.stack
             /\ sp' = r.sp
             /\ v' = r.v
             /\ i' = r.i
             /\ dt' = r.dt
             /\ ram' = r.ram
             /\ memory' = r.memory
             /\ state' = r.state
             /\ collision' = r.collision
             /\ fault' = r.fault
    /\ opcode' = op
    /\ UNCHANGED <<close_requested, last_input, input_dirty, at, overflow_checks, rom>>

----------------------------------------------------------------------------
(* Opcode words *)

\* the 16-bit word with nibbles a, b, c, d
Op(a, b, c, d) == a * 4096 + b * 256 + c * 16 + d

\* LD Vx, kk (6xkk)
LdVx(x, kk) == Op(6, x, 0, 0) + kk

Nibble1(op) == op \div 4096

NibbleX(op) == (op \div 256) % 16

NibbleY(op) == (op \div 16) % 16

Nibble4(op) == op % 16

LowByte(op) == op % 256

----------------------------------------------------------------------------
(* The skip family: 3xkk, 4xkk, 5xy0, 9xy0 *)

\* process_opcode is no longer called once pc has reached this address
MaxPcSkip == 8

SkipRegs == {0, 1, 15}

SkipBytes == {0, 1, 255}

SkipLoads == {LdVx(x, kk) : x \in SkipRegs, kk \in SkipBytes}

SkipOps ==
    {Op(3, x, 0, 0) + kk : x \in SkipRegs, kk \in SkipBytes}
    \cup {Op(4, x, 0, 0) + kk : x \in SkipRegs, kk \in SkipBytes}
    \cup {Op(5, x, y, 0) : x \in SkipRegs, y \in SkipRegs}
    \cup {Op(9, x, y, 0) : x \in SkipRegs, y \in SkipRegs}

InitSkip == Construct({TestRom})

NextSkip == pc < MaxPcSkip /\ \E op \in SkipLoads \cup SkipOps : ProcessOpcode(op)

SpecSkip == InitSkip /\ [][NextSkip]_vars

\* the opcodes of the skip family
IsSkipOp(op) ==
    \/ Nibble1(op) \in {3, 4}
    \/ Nibble1(op) \in {5, 9} /\ Nibble4(op) = 0

\* the skip condition of a skip-family opcode on the registers regs
SkipCondition(op, regs) ==
    CASE Nibble1(op) = 3 -> regs[NibbleX(op)] = LowByte(op)
      [] Nibble1(op) = 4 -> regs[NibbleX(op)] # LowByte(op)
      [] Nibble1(op) = 5 -> regs[NibbleX(op)] = regs[NibbleY(op)]
      [] Nibble1(op) = 9 -> regs[NibbleX(op)] # regs[NibbleY(op)]

\* C2: a skip-family opcode (3xkk, 4xkk, 5xy0, 9xy0) executed at pc = p leaves
\* pc = p + 4 exactly when its condition holds on the registers and p + 2
\* otherwise, and changes no register, I, sp, stack, memory or framebuffer cell.
C2_SkipFamily ==
    [][IsSkipOp(opcode') =>
          /\ fault' = "none"
          /\ pc' = pc + (IF SkipCondition(opcode', v) THEN 4 ELSE 2)
          /\ UNCHANGED <<v, i, sp, stack, ram, memory>>]_vars

\* SE V1, VF has skipped with both registers 255, after two loads
C2_Witness ==
    /\ opcode = Op(5, 1, 15, 0)
    /\ v[1] = 255 /\ v[15] = 255
    /\ pc = 8
    /\ fault = "none"

----------------------------------------------------------------------------
(* The run loop on the test interconnect *)

\* memory.rs tests::get_mem: vec![1, 2, 3, 4, 5, 6, 7]
MemTestRom == <<1, 2, 3, 4, 5, 6, 7>>

\* the longest program image Memory::new accepts: RAM_SIZE - END_RESERVED bytes
FullRom == [k \in 1..(RAM_SIZE - END_RESERVED) |-> ((k - 1) % 255) + 1]

\* LD V1, 0xFE; SE V1, 0xFE; (skipped); LD I, 0x300; LD [I], V1; JP 0x20A
LoopRom == <<\h61, \hFE, \h31, \hFE, \h00, \hE0, \hA3, \h00, \hF1, \h55, \h12, \h0A>>

Roms == {<< >>, TestRom, MemTestRom, LoopRom, FullRom}

\* One turn of Cpu::run: close_requested() is false, then execute_cycle(),
\* then handle_inputs(), which does nothing on the test keyboard, whose
\* wait_input returns 0.
ExecuteCycle ==
    /\ fault = "none"
    /\ ~close_requested
    /\ \E rnd \in (IF ~fetch_panics(Cpu) /\ Nibble1(read_word(ram, pc)) = 12
                   THEN RandomBytes ELSE {0}) :
         \E r \in {execute_cycle(Cpu, rnd, 0)} :
             /\ pc' = r.pc
             /\ stack' = r.stack
             /\ sp' = r.sp
             /\ v' = r.v
             /\ i' = r.i
             /\ dt' = r.dt
             /\ ram' = r.ram
             /\ memory' = r.memory
             /\ state' = r.state
             /\ collision' = r.collision
             /\ fault' = r.fault
    /\ opcode' = IF fetch_panics(Cpu) THEN opcode ELSE read_word(ram, pc)
    /\ UNCHANGED <<close_requested, last_input, input_dirty, at, overflow_checks, rom>>

Init == Construct(Roms)

Next == ExecuteCycle

Spec == Init /\ [][Next]_vars

\* the state Construct leaves: nothing has been handed to process_opcode yet
Constructed == opcode = NoOpcode

\* C1: right after construction, before any cycle, pc is the reserved program
\* offset 0x200, and sp, V0..VF, I and the delay timer are 0.
C1_ConstructedAtProgramOffset ==
    Constructed =>
        /\ pc = 512
        /\ sp = 0
        /\ \A r \in 0..15 : v[r] = 0
        /\ i = 0
        /\ dt = 0

\* C10: after Memory::new(rom), bytes 0..79 are the font table in order (byte
\* 20 is 0x90, the first byte of glyph 4), bytes 512..512+L-1 are the rom in
\* order, and every other byte is 0.
C10_MemoryLayout ==
    Constructed =>
        /\ \A a \in 0..4095 :
              ram[a] = IF a < 80 THEN FONTSET[a + 1]
                       ELSE IF a >= 512 /\ a < 512 + Len(rom) THEN rom[a - 512 + 1]
                       ELSE 0
        /\ ram[20] = 144
        /\ \A d \in 0..15 : \A k \in 0..4 : ram[5 * d + k] = FONTSET[5 * d + k + 1]

\* the longest accepted rom has been loaded: its last byte is the last byte of ram
C10_Witness ==
    /\ Constructed
    /\ Len(rom) = 3584
    /\ ram[512] = rom[1]
    /\ ram[4095] = rom[3584]
    /\ rom[3584] # 0

----------------------------------------------------------------------------
(* CALL and RET: 2nnn, 00EE *)

\* process_opcode is no longer called once pc has reached this address
MaxPcCall == 10

\* RET (00EE)
RetOp == Op(0, 0, 14, 14)

\* CALL nnn (2nnn)
CallOp(nnn) == Op(2, 0, 0, 0) + nnn

\* the call targets: the last address below MaxPcCall, so that calls nest to
\* the full depth of the stack, and the target of cpu.rs tests::opcode_call
CallTargets == {MaxPcCall - 2, \hABC}

CallOps ==
    {CallOp(nnn) : nnn \in CallTargets}
    \cup {RetOp, LdVx(1, \hAB), Op(10, 1, 2, 3)}

InitCall == Construct({TestRom})

NextCall == pc < MaxPcCall /\ \E op \in CallOps : ProcessOpcode(op)

SpecCall == InitCall /\ [][NextCall]_vars

IsCallOp(op) == Nibble1(op) = 2

\* C3: CALL nnn at pc = p with sp = s < 16 stores p + 2 in stack[s], sets
\* sp = s + 1 and pc = nnn; a RET executed next sets sp back to s and pc to
\* p + 2; neither changes a register, I, memory or the framebuffer.  The RET is
\* checked twice: applied to the state the CALL left, and as the step that
\* follows a CALL.
C3_CallThenRet ==
    /\ [][(IsCallOp(opcode') /\ sp < 16) =>
             /\ fault' = "none"
             /\ stack'[sp] = pc + 2
             /\ sp' = sp + 1
             /\ pc' = opcode' % 4096
             /\ UNCHANGED <<v, i, ram, memory>>
             /\ LET r == process_opcode(Cpu', RetOp, 0, 0)
                IN  /\ r.fault = "none"
                    /\ r.sp = sp
                    /\ r.pc = pc + 2
                    /\ r.v = v /\ r.i = i /\ r.ram = ram /\ r.memory = memory]_vars
    /\ [][(IsCallOp(opcode) /\ opcode' = RetOp) =>
             /\ fault' = "none"
             /\ sp' = sp - 1
             /\ pc' = stack[sp - 1]
             /\ UNCHANGED <<v, i, ram, memory>>]_vars

\* a RET has returned from the sixteenth nested CALL (made at pc = 8 with
\* sp = 15), with V1 and I set before
C3_Witness ==
    /\ opcode = RetOp
    /\ sp = 15
    /\ stack[15] = 10
    /\ pc = 10
    /\ v[1] = 171
    /\ i = 291
    /\ fault = "none"

----------------------------------------------------------------------------
(* Register arithmetic: 8xy4, 8xy5 *)

\* process_opcode is no longer called once pc has reached this address
MaxPcAlu == 6

AluRegs == {0, 1, 15}

AluBytes == {1, 127, 128, 255}

AluLoads == {LdVx(x, kk) : x \in AluRegs, kk \in AluBytes}

\* ADD Vx, Vy (8xy4)
AddOps == {Op(8, x, y, 4) : x \in AluRegs, y \in AluRegs}

\* SUB Vx, Vy (8xy5)
SubOps == {Op(8, x, y, 5) : x \in AluRegs, y \in AluRegs}

InitAdd == Construct({TestRom})

NextAdd == pc < MaxPcAlu /\ \E op \in AluLoads \cup AddOps : ProcessOpcode(op)

SpecAdd == InitAdd /\ [][NextAdd]_vars

InitSub == Construct({TestRom})

NextSub == pc < MaxPcAlu /\ \E op \in AluLoads \cup SubOps : ProcessOpcode(op)

SpecSub == InitSub /\ [][NextSub]_vars

IsAddOp(op) == Nibble1(op) = 8 /\ Nibble4(op) = 4

IsSubOp(op) == Nibble1(op) = 8 /\ Nibble4(op) = 5

\* C4 as claimed: for every x and y, x = 0xF included, after 8xy4 VF is 1 if
\* Vx + Vy > 255 and 0 otherwise, and Vx is (Vx + Vy) mod 256.
C4_AsClaimed ==
    [][IsAddOp(opcode') =>
          LET x == NibbleX(opcode')
              y == NibbleY(opcode')
          IN  /\ v'[15] = (IF v[x] + v[y] > 255 THEN 1 ELSE 0)
              /\ v'[x] = (v[x] + v[y]) % 256]_vars

\* C4 amended: after 8xy4, Vx is (Vx + Vy) mod 256 for every x and y; VF is
\* the carry (1 if Vx + Vy > 255, else 0) when x is not 0xF.  With x = 0xF the
\* sum is written after the carry, so VF holds (VF + Vy) mod 256.  No other
\* register changes.
C4_AddCarry ==
    [][IsAddOp(opcode') =>
          LET x == NibbleX(opcode')
              y == NibbleY(opcode')
          IN  /\ fault' = "none"
              /\ v'[x] = (v[x] + v[y]) % 256
              /\ x # 15 => v'[15] = (IF v[x] + v[y] > 255 THEN 1 ELSE 0)
              /\ \A r \in 0..15 : r \notin {x, 15} => v'[r] = v[r]]_vars

\* ADD V0, V1 has carried: 0xFF + 0x80 = 0x17F
C4_Witness ==
    /\ opcode = Op(8, 0, 1, 4)
    /\ v[0] = 127 /\ v[1] = 128 /\ v[15] = 1
    /\ pc = 6
    /\ fault = "none"

\* C5: 8xy5 with x not 0xF sets VF = 1 and Vx = (Vx - Vy) mod 256 when
\* Vx < Vy as unsigned bytes, and sets VF = 0 when Vx >= Vy as unsigned bytes.
C5_SubBorrowUnsigned ==
    [][(IsSubOp(opcode') /\ NibbleX(opcode') # 15) =>
          LET x == NibbleX(opcode')
              y == NibbleY(opcode')
          IN  /\ fault' = "none"
              /\ v[x] < v[y] => (v'[15] = 1 /\ v'[x] = (v[x] - v[y]) % 256)
              /\ v[x] >= v[y] => v'[15] = 0]_vars

----------------------------------------------------------------------------
(* Drawing: Dxyn hands (Vx, Vy, ram[I..I+n]) to Graphics::draw *)

\* process_opcode is no longer called once pc has reached this address
MaxPcDraw == 12

\* sprite rows at END_RESERVED: the two rows of graphics.rs tests::draw, a full
\* row, an empty row and a row with only its outer bits
DrawRom == <<\h33, \hCA, \hFF, \h00, \h81>>

\* DRW Vx, Vy, n (Dxyn)
DrwOp(x, y, n) == Op(13, x, y, n)

\* LD I, nnn (Annn)
LdI(nnn) == Op(10, 0, 0, 0) + nnn

\* V0 = 252 and V1 = 63 put the sprite at column 60, row 31 once reduced mod
\* 64 and 32: it wraps around both edges.  I is 0 (glyph 0 of the font) until
\* it is loaded with END_RESERVED.
DrawOps ==
    {LdVx(0, 252), LdVx(1, 63), LdI(END_RESERVED), DrwOp(0, 1, 2), DrwOp(0, 1, 5)}

InitDraw == Construct({DrawRom})

NextDraw == pc < MaxPcDraw /\ \E op \in DrawOps : ProcessOpcode(op)

SpecDraw == InitDraw /\ [][NextDraw]_vars

IsDrwOp(op) == Nibble1(op) = 13

\* the 1-bits <<row j, bit b>> of the sprite a DRW op draws in this state,
\* bit 0 the most significant
DrwHits(op) ==
    {h \in (0..(Nibble4(op) - 1)) \X (0..7) : (ram[i + h[1]] \div (2 ^ (7 - h[2]))) % 2 = 1}

\* the framebuffer cell that 1-bit h of a DRW op lands on in this state
DrwCell(op, h) ==
    ((v[NibbleX(op)] + h[2]) % 64) + 64 * ((v[NibbleY(op)] + h[1]) % 32)

\* hit g comes before hit h in the order draw handles them
DrwBefore(g, h) == g[1] < h[1] \/ (g[1] = h[1] /\ g[2] < h[2])

\* C6: draw(x, y, sprite) toggles cell ((x+i) mod 64, (y+j) mod 32) for every
\* 1-bit (row j, bit i, most significant first) and leaves every other cell as
\* it was; it returns true exactly when some 1-bit landed on a cell that was on
\* just before that toggle.
C6_DrawTogglesAndReportsCollision ==
    [][(IsDrwOp(opcode') /\ fault' = "none") =>
          \E hits \in {DrwHits(opcode')} :
             \E toggled \in {{DrwCell(opcode', h) : h \in
                               {h \in hits :
                                  Cardinality({g \in hits :
                                     DrwCell(opcode', g) = DrwCell(opcode', h)}) % 2 = 1}}} :
                /\ memory' = [cell \in 0..(DISPLAY_SIZE - 1) |->
                                 IF cell \in toggled THEN 1 - memory[cell]
                                 ELSE memory[cell]]
                /\ collision' =
                      \E h \in hits :
                         (memory[DrwCell(opcode', h)]
                            + Cardinality({g \in hits :
                                 /\ DrwBefore(g, h)
                                 /\ DrwCell(opcode', g) = DrwCell(opcode', h)})) % 2 = 1]_vars

\* a five-row sprite drawn at column 60, row 31 has wrapped around both edges
\* onto cells that were on: its row 0x81 is at row 3, columns 60 and 3
C6_Witness ==
    /\ opcode = DrwOp(0, 1, 5)
    /\ v[0] = 252 /\ v[1] = 63 /\ i = 512
    /\ collision
    /\ memory[60 + 64 * 3] = 1 /\ memory[3 + 64 * 3] = 1
    /\ memory[62 + 64 * 31] = 0
    /\ fault = "none"

\* C7: draw called twice in a row with the same arguments leaves every cell as
\* it was before the first call, and the second call returns true exactly when
\* some 1-bit of the sprite lands on a cell that is on after the first call.
\* Checked at every DRW step: the second call is draw applied to the
\* framebuffer the step left, with the arguments of the step.
C7_DrawTwiceRestores ==
    [][(IsDrwOp(opcode') /\ fault' = "none") =>
          LET sprite == [k \in 1..Nibble4(opcode') |-> ram[i + k - 1]]
              second == draw(memory', v[NibbleX(opcode')], v[NibbleY(opcode')], sprite)
          IN  /\ second.memory = memory
              /\ second.collision =
                    \E h \in DrwHits(opcode') : memory'[DrwCell(opcode', h)] = 1]_vars

\* the same DRW has been executed twice in a row on a blank framebuffer: the
\* second has reported a collision and the framebuffer is blank again
C7_Witness ==
    /\ opcode = DrwOp(0, 1, 2)
    /\ v[0] = 252 /\ v[1] = 63 /\ i = 512
    /\ pc = 10
    /\ collision
    /\ \A cell \in 0..2047 : memory[cell] = 0
    /\ fault = "none"

\* ---------------------------------------------------------------------------
\* LD [I], Vx and LD Vx, [I]
\* ---------------------------------------------------------------------------

MaxPcStore == 8

\* Fx55 and Fx65
StoreOp(x) == Op(15, x, 5, 5)

LoadOp(x) == Op(15, x, 6, 5)

StoreOps ==
    {LdVx(0, 5), LdVx(0, 7), LdVx(1, 4), LdI(RAM_SIZE - 2),
     StoreOp(1), StoreOp(15), LoadOp(0), LoadOp(15)}

InitStore == Construct({TestRom})

NextStore == pc < MaxPcStore /\ \E op \in StoreOps : ProcessOpcode(op)

SpecStore == InitStore /\ [][NextStore]_vars

IsStoreOp(op) == Nibble1(op) = 15 /\ LowByte(op) = \h55

IsLoadOp(op) == Nibble1(op) = 15 /\ LowByte(op) = \h65

\* register contents V0..VF may have been overwritten with between the two
Overwrites == {[r \in 0..15 |-> 0], [r \in 0..15 |-> 255 - v[r]]}

\* C8: with I + n <= 4095, Fx55 (x = n) writes V0..Vn to ram[I..I+n] and
\* leaves every other byte of ram, every register and I as they were; Fx65
\* (x = n) executed next, whatever the registers were overwritten with in
\* between, gives V0..Vn the values stored and leaves V(n+1)..VF, ram and I as
\* they were.  Every Fx65 step loads V0..Vn from ram[I..I+n] and changes
\* nothing else.
C8_StoreLoadRoundTrip ==
    [][/\ (IsStoreOp(opcode') /\ fault = "none" /\ i + NibbleX(opcode') <= 4095) =>
            \E n \in {NibbleX(opcode')} :
               /\ fault' = "none"
               /\ ram' = [a \in DOMAIN ram |->
                             IF a >= i /\ a <= i + n THEN v[a - i] ELSE ram[a]]
               /\ v' = v
               /\ i' = i
               /\ \A w \in Overwrites :
                     \E r \in {process_opcode([Cpu' EXCEPT !.v = w], LoadOp(n), 0, 0)} :
                        /\ r.fault = "none"
                        /\ r.v = [q \in 0..15 |-> IF q <= n THEN v[q] ELSE w[q]]
                        /\ r.ram = ram'
                        /\ r.i = i
       /\ (IsLoadOp(opcode') /\ fault = "none" /\ i + NibbleX(opcode') <= 4095) =>
            /\ fault' = "none"
            /\ v' = [q \in 0..15 |-> IF q <= NibbleX(opcode') THEN ram[i + q] ELSE v[q]]
            /\ ram' = ram
            /\ i' = i]_vars

\* V0 = 5 and V1 = 0 were stored at ram[0] and ram[1], V0 was overwritten
\* with 7 and loaded back; ram[2] still holds its fontset byte
C8_Witness ==
    /\ opcode = LoadOp(0)
    /\ pc = 8
    /\ i = 0
    /\ ram[0] = 5 /\ v[0] = 5
    /\ ram[1] = 0 /\ v[1] = 0
    /\ ram[2] = FONTSET[3]
    /\ fault = "none"

\* ---------------------------------------------------------------------------
\* LD B, Vx
\* ---------------------------------------------------------------------------

MaxPcBcd == 6

BcdBytes == {0, 9, 10, 99, 100, 109, 110, 199, 234, 255}

BcdOp(x) == Op(15, x, 3, 3)

BcdOps ==
    {LdVx(2, b) : b \in BcdBytes}
       \cup {LdI(768), LdI(RAM_SIZE - 3), LdI(RAM_SIZE - 2), BcdOp(2), BcdOp(0)}

InitBcd == Construct({TestRom})

NextBcd == pc < MaxPcBcd /\ \E op \in BcdOps : ProcessOpcode(op)

SpecBcd == InitBcd /\ [][NextBcd]_vars

IsBcdOp(op) == Nibble1(op) = 15 /\ LowByte(op) = \h33

\* C9: with I + 2 <= 4095, Fx33 stores at ram[I], ram[I+1], ram[I+2] digits
\* h, t, o, each in 0..9, with 100 * h + 10 * t + o = Vx, and changes no other
\* byte of ram, no register and not I; the digits stored are such digits for
\* every byte Vx can hold.
C9_BcdDigits ==
    [][(IsBcdOp(opcode') /\ fault = "none" /\ i + 2 <= 4095) =>
          /\ fault' = "none"
          /\ {ram'[i], ram'[i + 1], ram'[i + 2]} \subseteq 0..9
          /\ 100 * ram'[i] + 10 * ram'[i + 1] + ram'[i + 2] = v[NibbleX(opcode')]
          /\ \A a \in DOMAIN ram : a \notin i..(i + 2) => ram'[a] = ram[a]
          /\ v' = v
          /\ i' = i
          /\ \A b \in 0..255 :
                \E r \in {op_ld_b_vx(Cpu, b)} :
                   /\ r.fault = "none"
                   /\ {r.ram[i], r.ram[i + 1], r.ram[i + 2]} \subseteq 0..9
                   /\ 100 * r.ram[i] + 10 * r.ram[i + 1] + r.ram[i + 2] = b]_vars

\* V2 = 234 has been stored as 2, 3, 4 in the last three bytes of ram
C9_Witness ==
    /\ opcode = BcdOp(2)
    /\ v[2] = 234
    /\ i = RAM_SIZE - 3
    /\ ram[RAM_SIZE - 3] = 2 /\ ram[RAM_SIZE - 2] = 3 /\ ram[RAM_SIZE - 1] = 4
    /\ fault = "none"

\* ---------------------------------------------------------------------------
\* The default advance of pc
\* ---------------------------------------------------------------------------

MaxPcPlain == 4

\* one or more words of every opcode that is not a jump, call, return or skip
PlainOps ==
    {Op(0, 0, 14, 0), LdVx(1, \hAB), LdVx(15, 1), Op(7, 1, 5, 6),
     Op(8, 0, 1, 0), Op(8, 0, 1, 1), Op(8, 0, 1, 2), Op(8, 0, 1, 3),
     Op(8, 0, 1, 4), Op(8, 0, 1, 5), Op(8, 1, 0, 6), Op(8, 0, 1, 7),
     Op(8, 1, 0, 14), LdI(\hABC), LdI(END_RESERVED), Op(12, 2, 15, 15),
     Op(13, 0, 1, 3), Op(15, 1, 0, 7), Op(15, 3, 0, 10), Op(15, 1, 1, 5),
     Op(15, 1, 1, 14), Op(15, 1, 2, 9), Op(15, 1, 3, 3), Op(15, 1, 5, 5),
     Op(15, 1, 6, 5)}

InitPlain == Construct({TestRom})

NextPlain == pc < MaxPcPlain /\ \E op \in PlainOps : ProcessOpcode(op)

SpecPlain == InitPlain /\ [][NextPlain]_vars

\* 00E0, 6xkk, 7xkk, 8xy*, Annn, Cxkk, Dxyn, Fx07, Fx0A, Fx15, Fx1E, Fx29,
\* Fx33, Fx55, Fx65
IsPlainOp(op) ==
    \/ op = Op(0, 0, 14, 0)
    \/ Nibble1(op) \in {6, 7, 8, 10, 12, 13}
    \/ Nibble1(op) = 15 /\ LowByte(op) \in {\h07, \h0A, \h15, \h1E, \h29, \h33, \h55, \h65}

\* C11: an opcode that is not a jump, call, return, skip or Bnnn leaves pc at
\* the pc before the instruction plus 2; 6xkk sets Vx = kk and Annn sets
\* I = nnn, and both change nothing else but pc.
C11_PlainOpsAdvanceByTwo ==
    [][(IsPlainOp(opcode') /\ fault' = "none") =>
          /\ pc' = pc + 2
          /\ Nibble1(opcode') = 6 =>
                /\ v' = [v EXCEPT ![NibbleX(opcode')] = LowByte(opcode')]
                /\ UNCHANGED <<stack, sp, i, dt, ram, memory, state, close_requested>>
          /\ Nibble1(opcode') = 10 =>
                /\ i' = opcode' % 4096
                /\ UNCHANGED <<stack, sp, v, dt, ram, memory, state, close_requested>>]_vars

\* LD V1, 0xAB then LD I, 0xABC have been executed from pc = 0
C11_Witness ==
    /\ opcode = LdI(\hABC)
    /\ pc = 4
    /\ i = \hABC
    /\ v[1] = \hAB
    /\ fault = "none"

\* ---------------------------------------------------------------------------
\* Instruction words outside the opcode table
\* ---------------------------------------------------------------------------

MaxPcUnknown == 6

UnknownOps ==
    {Op(0, 1, 2, 3), Op(0, 0, 14, 1), Op(5, 0, 1, 1), Op(9, 0, 1, 1),
     Op(8, 0, 1, 8), Op(8, 0, 1, 15), Op(14, 1, 9, 15), Op(15, 1, 15, 15),
     Op(15, 1, 3, 4), LdVx(0, 1), LdVx(1, 1)}

InitUnknown == Construct({TestRom})

NextUnknown == pc < MaxPcUnknown /\ \E op \in UnknownOps : ProcessOpcode(op)

SpecUnknown == InitUnknown /\ [][NextUnknown]_vars

\* the words that match no pattern of the opcode table: 0nnn other than 00E0
\* and 00EE, 5xyN and 9xyN with N # 0, 8xyN with N in 8..D or F, ExNN other
\* than Ex9E and ExA1, FxNN outside Fx07 .. Fx65
IsUnknownOp(op) ==
    \/ Nibble1(op) = 0 /\ op \notin {Op(0, 0, 14, 0), Op(0, 0, 14, 14)}
    \/ Nibble1(op) \in {5, 9} /\ Nibble4(op) # 0
    \/ Nibble1(op) = 8 /\ Nibble4(op) \in (8..13) \cup {15}
    \/ Nibble1(op) = 14 /\ LowByte(op) \notin {\h9E, \hA1}
    \/ Nibble1(op) = 15 /\ LowByte(op) \notin {\h07, \h0A, \h15, \h18, \h1E, \h29, \h33, \h55, \h65}

\* C12: a word that matches no pattern of the opcode table is a no-op:
\* executing it advances pc by exactly 2, raises no fault and changes no
\* register, I, sp, stack entry, delay timer, memory byte or framebuffer cell.
C12_UnknownIsNoOp ==
    [][IsUnknownOp(opcode') =>
          /\ fault' = "none"
          /\ pc' = pc + 2
          /\ UNCHANGED <<stack, sp, v, i, dt, ram, memory>>]_vars

\* ---------------------------------------------------------------------------
\* Accesses outside the address space
\* ---------------------------------------------------------------------------

MaxPcBounds == 6

JpOp(nnn) == Op(1, 0, 0, 0) + nnn

BoundsOps ==
    {JpOp(RAM_SIZE - 1), JpOp(RAM_SIZE - 2), LdI(RAM_SIZE - 2), LdI(RAM_SIZE - 1),
     LdVx(1, 255), Op(15, 1, 1, 14), DrwOp(0, 0, 3), DrwOp(0, 0, 2),
     BcdOp(1), StoreOp(1), LoadOp(1)}

InitBounds == Construct({TestRom})

\* instructions handed to process_opcode near pc = 0, and cycles of the run
\* loop once pc is at the end of the address space
NextBounds ==
    \/ pc < MaxPcBounds /\ \E op \in BoundsOps : ProcessOpcode(op)
    \/ pc >= RAM_SIZE - 2 /\ ExecuteCycle

SpecBounds == InitBounds /\ [][NextBounds]_vars

\* C13: an access outside 0..4095 is never clamped or wrapped: a fetch with
\* pc >= 4095, Dxyn with I + n > 4096, Fx33 with I + 2 > 4095 and Fx55 / Fx65
\* with I + x + 1 > 4096 each end in the OutOfBounds fault, from which no
\* further step is taken, and no byte at an in-range address is read or
\* written in place of the out-of-range one (registers, framebuffer and ram
\* are as before, but for the digits Fx33 stored at their own in-range
\* addresses before the out-of-range one).
C13_OutOfRangeIsFatal ==
    [][/\ fault = "none"
       /\ pc >= RAM_SIZE - 1 =>
             /\ fault' = "OutOfBounds"
             /\ UNCHANGED <<pc, stack, sp, v, i, ram, memory, opcode>>
       /\ (pc < RAM_SIZE - 1 /\ IsDrwOp(opcode') /\ i + Nibble4(opcode') > RAM_SIZE) =>
             /\ fault' = "OutOfBounds"
             /\ UNCHANGED <<v, i, ram, memory>>
       /\ (pc < RAM_SIZE - 1 /\ IsBcdOp(opcode') /\ i + 2 > RAM_SIZE - 1) =>
             /\ fault' = "OutOfBounds"
             /\ UNCHANGED <<v, i, memory>>
             /\ \A a \in DOMAIN ram :
                   \/ ram'[a] = ram[a]
                   \/ a = i /\ ram'[a] = v[NibbleX(opcode')] \div 100
                   \/ a = i + 1 /\ ram'[a] = (v[NibbleX(opcode')] \div 10) % 10
       /\ (/\ pc < RAM_SIZE - 1
           /\ IsStoreOp(opcode') \/ IsLoadOp(opcode')
           /\ i + NibbleX(opcode') + 1 > RAM_SIZE) =>
             /\ fault' = "OutOfBounds"
             /\ UNCHANGED <<v, i, ram, memory>>]_vars

\* the cycle after JP 0xFFF has faulted on its fetch at pc = 4095
C13_Witness ==
    /\ fault = "OutOfBounds"
    /\ pc = RAM_SIZE - 1
    /\ opcode = JpOp(RAM_SIZE - 1)

\* ---------------------------------------------------------------------------
\* The run loop on the Keyboard (Interconnect::new)
\* ---------------------------------------------------------------------------

\* the longest batch of events one poll of the event pump returns
MaxEvents == 1

Events == {KeyDown(1), KeyUp(1), KeyDown(2), Quit, OtherEvent}

\* the batches poll_iter().collect() can return
Batches == UNION {[1..n -> Events] : n \in 0..MaxEvents}

\* LD V1, K; SKP V1; JP 0x200; JP 0x200
KeyRom == <<\hF1, \h0A, \hE1, \h9E, \h12, \h00, \h12, \h00>>

\* (0xF, _, 0x0, 0xA) LD Vx, K
IsWaitOp(op) == Nibble1(op) = 15 /\ LowByte(op) = \h0A

\* Cpu::run at the top of its loop with no close requested: execute_cycle() up
\* to the end of process_opcode, or up to the call of wait_input() when the
\* opcode fetched is LD Vx, K; wait_input() starts with input_dirty = false.
RunCycle ==
    /\ at = "check"
    /\ fault = "none"
    /\ ~is_close_requested(Keyboard)
    /\ \E waits \in {~fetch_panics(Cpu) /\ IsWaitOp(read_word(ram, pc))} :
       \E rnd \in (IF ~fetch_panics(Cpu) /\ Nibble1(read_word(ram, pc)) = 12
                   THEN RandomBytes ELSE {0}) :
       \E r \in {IF waits THEN pc_add(handle_timers(Cpu), 2)
                 ELSE execute_cycle(Cpu, rnd, 0)} :
          /\ pc' = r.pc
          /\ stack' = r.stack
          /\ sp' = r.sp
          /\ v' = r.v
          /\ i' = r.i
          /\ dt' = r.dt
          /\ ram' = r.ram
          /\ memory' = r.memory
          /\ state' = r.state
          /\ collision' = r.collision
          /\ fault' = r.fault
          /\ at' = IF r.fault # "none" THEN at ELSE IF waits THEN "wait" ELSE "inputs"
          /\ input_dirty' = IF waits /\ r.fault = "none" THEN FALSE ELSE input_dirty
    /\ opcode' = IF fetch_panics(Cpu) THEN opcode ELSE read_word(ram, pc)
    /\ UNCHANGED <<close_requested, last_input, overflow_checks, rom>>

\* One turn of the loop of Keyboard::wait_input: handle_inputs() on the events
\* polled; if the input is dirty, wait_input returns last_input, the LD Vx, K
\* arm stores it in Vx and execute_cycle returns; otherwise the loop sleeps
\* and turns again.
WaitInput(events) ==
    /\ at = "wait"
    /\ fault = "none"
    /\ \E k \in {handle_inputs(Keyboard, events)} :
          /\ state' = k.state
          /\ last_input' = k.last_input
          /\ input_dirty' = k.input_dirty
          /\ close_requested' = k.close_requested
          /\ IF k.input_dirty
             THEN /\ v' = dispatch(Cpu, opcode, 0, k.last_input).v
                  /\ at' = "inputs"
             ELSE UNCHANGED <<v, at>>
    /\ UNCHANGED <<pc, stack, sp, i, dt, ram, memory, opcode, collision, fault,
                   overflow_checks, rom>>

\* Cpu::run after execute_cycle(): self.interconnect.input.handle_inputs()
HandleInputs(events) ==
    /\ at = "inputs"
    /\ fault = "none"
    /\ \E k \in {handle_inputs(Keyboard, events)} :
          /\ state' = k.state
          /\ last_input' = k.last_input
          /\ input_dirty' = k.input_dirty
          /\ close_requested' = k.close_requested
    /\ at' = "check"
    /\ UNCHANGED <<pc, stack, sp, v, i, dt, ram, memory, opcode, collision, fault,
                   overflow_checks, rom>>

\* Cpu::run at the top of its loop with a close requested: break
Exit ==
    /\ at = "check"
    /\ fault = "none"
    /\ is_close_requested(Keyboard)
    /\ at' = "exited"
    /\ UNCHANGED <<pc, stack, sp, v, i, dt, ram, memory, state, close_requested,
                   last_input, input_dirty, opcode, collision, fault,
                   overflow_checks, rom>>

InitRun == Construct({KeyRom})

NextRun ==
    \/ RunCycle
    \/ \E events \in Batches : WaitInput(events)
    \/ \E events \in Batches : HandleInputs(events)
    \/ Exit

SpecRun == InitRun /\ [][NextRun]_vars

\* C14: Fx0A suspends the cycle until some key transitions to pressed and
\* loads the index of that key into Vx: the wait never ends on a key release,
\* on an event that is no key event, or for a key that was already down.
C14_WaitEndsOnKeyPress ==
    [][(at = "wait" /\ at' # "wait") =>
          \E key \in 0..15 :
             /\ ~state[key]
             /\ state'[key]
             /\ v'[NibbleX(opcode)] = key]_vars

\* C15: in Cpu::run the close request is examined once per full cycle, at the
\* top of the loop, never in the middle of an instruction; it is recorded only
\* by an input refresh and never cleared; once recorded, the next check exits
\* the loop without executing anything further; and without a fault the loop
\* exits for no other reason.
C15_CloseCheckedOncePerCycle ==
    [][/\ close_requested => close_requested'
       /\ close_requested' # close_requested => at \in {"wait", "inputs"}
       /\ at = "wait" => at' \in {"wait", "inputs"}
       /\ at = "inputs" => at' = "check"
       /\ at' = "check" => at = "inputs"
       /\ (at = "check" /\ close_requested) =>
             /\ at' = "exited"
             /\ UNCHANGED <<pc, stack, sp, v, i, dt, ram, memory, state, opcode,
                            collision, fault>>
       /\ at' = "exited" => (at = "check" /\ close_requested /\ fault = "none")
       /\ at # "exited"]_vars

\* the loop has exited after a cycle whose LD V1, K was ended by key 2
C15_Witness ==
    /\ at = "exited"
    /\ close_requested
    /\ opcode = Op(15, 1, 0, 10)
    /\ pc = END_RESERVED + 2
    /\ v[1] = 2
    /\ fault = "none"

\* ---------------------------------------------------------------------------
\* The font table
\* ---------------------------------------------------------------------------

\* C16: in every reachable state, addresses 0..79 hold the font table byte for
\* byte: no opcode, Fx33 and Fx55 included, changes a byte below address 80.
C16_FontImmutable ==
    \A a \in 0..79 : ram[a] = FONTSET[a + 1]

\* ---------------------------------------------------------------------------
\* The stack pointer
\* ---------------------------------------------------------------------------

\* C17: in every reachable non-fault state sp is in 0..15.
C17_SpBelowSixteen == fault = "none" => sp \in 0..15

\* C17, amended: in every reachable non-fault state sp is in 0..16 (16 entries
\* in use); a CALL that does not fault writes stack[sp] with sp in 0..15 and
\* nothing else of the stack, a RET that does not fault reads stack[sp - 1]
\* with sp - 1 in 0..15 and leaves the stack as it is; a CALL at sp = 16 and a
\* RET at sp = 0 fault and leave the stack as it is.
C17_SpWithinStack ==
    /\ [](fault = "none" => sp \in 0..16)
    /\ [][/\ (IsCallOp(opcode') /\ fault' = "none") =>
                /\ sp \in 0..15
                /\ stack' = [stack EXCEPT ![sp] = pc + 2]
          /\ (opcode' = RetOp /\ fault' = "none") =>
                /\ sp - 1 \in 0..15
                /\ pc' = stack[sp - 1]
                /\ stack' = stack
          /\ (IsCallOp(opcode') /\ sp = 16) => (fault' # "none" /\ stack' = stack)
          /\ (opcode' = RetOp /\ sp = 0) => (fault' # "none" /\ stack' = stack)]_vars

\* the sixteenth nested CALL has been made: the stack is full
C17_Witness ==
    /\ sp = 16
    /\ IsCallOp(opcode)
    /\ \A k \in 0..15 : stack[k] = MaxPcCall
    /\ fault = "none"

\* ---------------------------------------------------------------------------
\* The instruction fetch
\* ---------------------------------------------------------------------------

\* C18: read_word(a) is 256 * ram[a] + ram[a + 1] for every a in 0..4094 (for
\* every address of the memory Memory::new built, and for pc in every cycle),
\* and it modifies nothing: a cycle that starts at pc executes exactly that
\* word at pc, after the timers were handled, and changes nothing else.
C18_FetchBigEndianAtPc ==
    /\ [](Constructed =>
             \A a \in 0..(RAM_SIZE - 2) : read_word(ram, a) = 256 * ram[a] + ram[a + 1])
    /\ [][(fault = "none" /\ pc <= RAM_SIZE - 2) =>
             \E word \in {256 * ram[pc] + ram[pc + 1]} :
                /\ opcode' = word
                /\ \E rnd \in RandomBytes \cup {0} :
                   \E r \in {process_opcode(handle_timers(Cpu), word, rnd, 0)} :
                      /\ pc' = r.pc /\ stack' = r.stack /\ sp' = r.sp
                      /\ v' = r.v /\ i' = r.i /\ dt' = r.dt
                      /\ ram' = r.ram /\ memory' = r.memory
                      /\ fault' = r.fault]_vars

\* the first word of the rom 1, 2, 3, 4, 5, 6, 7 has been fetched at 0x200
C18_Witness ==
    /\ rom = MemTestRom
    /\ opcode = 258
    /\ pc = END_RESERVED + 2
    /\ fault = "none"

\* ---------------------------------------------------------------------------
\* The delay timer in the run loop
\* ---------------------------------------------------------------------------

\* the values the timer roms load into the delay timer
TimerValues == {1, 3, 255}

\* at 0x200: LD V1, k; LD DT, V1; LD V2, DT; then at 0x206: LD V3, DT;
\* JP 0x206: the timer is set once
TimerOnceRom(k) ==
    <<\h61, k, \hF1, \h15, \hF2, \h07, \hF3, \h07, \h12, \h06>>

\* at 0x200: LD V1, k; then at 0x202: LD DT, V1; LD V2, DT; LD V2, DT;
\* JP 0x202: the timer is set again and again
TimerAgainRom(k) ==
    <<\h61, k, \hF1, \h15, \hF2, \h07, \hF2, \h07, \h12, \h02>>

TimerRoms ==
    {TimerOnceRom(k) : k \in TimerValues} \cup {TimerAgainRom(k) : k \in TimerValues}

InitTimer == Construct(TimerRoms)

NextTimer == ExecuteCycle

SpecTimer == InitTimer /\ [][NextTimer]_vars

\* (0xF, _, 0x1, 0x5) LD DT, Vx
IsSetTimerOp(op) == Nibble1(op) = 15 /\ LowByte(op) = \h15

\* (0xF, _, 0x0, 0x7) LD Vx, DT
IsGetTimerOp(op) == Nibble1(op) = 15 /\ LowByte(op) = \h07

\* C19: in every cycle the delay timer is decremented, if it is not 0, before
\* the instruction is fetched and executed: a cycle that starts with dt = d
\* and does not execute Fx15 ends with dt = max(d - 1, 0); Fx07 in a cycle that
\* starts with dt = d > 0 loads d - 1 into Vx; and after Fx15 has set
\* dt = Vx = k > 0, an Fx07 in the very next cycle reads k - 1.
C19_TimerDecrementsBeforeFetch ==
    [][(fault = "none" /\ fault' = "none") =>
          /\ ~IsSetTimerOp(opcode') => dt' = IF dt > 0 THEN dt - 1 ELSE 0
          /\ IsSetTimerOp(opcode') => dt' = v[NibbleX(opcode')]
          /\ (IsGetTimerOp(opcode') /\ dt > 0) => v'[NibbleX(opcode')] = dt - 1
          /\ (IsSetTimerOp(opcode) /\ IsGetTimerOp(opcode') /\ v[NibbleX(opcode)] > 0) =>
                /\ dt = v[NibbleX(opcode)]
                /\ v'[NibbleX(opcode')] = v[NibbleX(opcode)] - 1]_vars

\* LD V2, DT has read 254 in the cycle after LD DT, V1 with V1 = 255
C19_Witness ==
    /\ opcode = Op(15, 2, 0, 7)
    /\ pc = END_RESERVED + 6
    /\ v[1] = 255
    /\ v[2] = 254
    /\ dt = 254
    /\ fault = "none"

\* Cpu::run is a loop on the one thread of the program: as long as a cycle can
\* be executed, one is.
SpecTimerLive == InitTimer /\ [][NextTimer]_vars /\ WF_vars(ExecuteCycle)

\* C20: if from some point on no Fx15 is executed and the interpreter keeps
\* executing cycles, the delay timer eventually reaches 0 and then stays 0
\* forever; the timer is a byte, at most 255, and (C19) every such cycle that
\* finds it above 0 takes 1 off, so 0 is reached within 255 cycles.
C20_TimerReachesZero ==
    /\ [](dt \in 0..255)
    /\ (<>[][~IsSetTimerOp(opcode')]_vars) => <>[](dt = 0)

\* the timer was set to 3 once, read as 2 in the next cycle, and is read as 0
\* by the loop that follows
C20_Witness ==
    /\ rom = TimerOnceRom(3)
    /\ opcode = Op(15, 3, 0, 7)
    /\ v[1] = 3
    /\ v[2] = 2
    /\ v[3] = 0
    /\ dt = 0
    /\ fault = "none"

\* ---------------------------------------------------------------------------
\* A close request during a key wait
\* ---------------------------------------------------------------------------

IsKeyEvent(e) == e.type \in {"KeyDown", "KeyUp"}

\* the batches without a key event, and those of them with a Quit
NoKeyBatches == {b \in Batches : \A k \in DOMAIN b : ~IsKeyEvent(b[k])}

QuitOnlyBatches == {b \in NoKeyBatches : \E k \in DOMAIN b : b[k] = Quit}

\* C21: a close request that arrives while Fx0A is waiting is recorded and
\* does not end the wait; without a key event the wait goes on, whatever else
\* arrives, so the loop never gets to its check; the wait ends only with a key
\* event, the Fx0A then writes Vx, and the loop stops only at the check that
\* follows the cycle and its input refresh.  (What ends a wait is the dirty
\* mark of the input, which no refresh without a key event sets.)
C21_CloseDuringWait ==
    [][/\ \A b \in QuitOnlyBatches :
             WaitInput(b) => (close_requested' /\ at' = "wait" /\ v' = v)
       /\ \A b \in NoKeyBatches : WaitInput(b) => (at' = "wait" /\ v' = v)
       /\ \A b \in NoKeyBatches :
             HandleInputs(b) => (input_dirty' = input_dirty /\ last_input' = last_input)
       /\ (at = "wait" /\ close_requested) => (at' # "exited" /\ close_requested')
       /\ (at = "wait" /\ at' # "wait") =>
             /\ \E b \in Batches \ NoKeyBatches : WaitInput(b)
             /\ at' = "inputs"
             /\ v' = [v EXCEPT ![NibbleX(opcode)] = last_input']
       /\ at' = "exited" => (at = "check" /\ close_requested)]_vars

\* a close request has been recorded while LD V1, K is still waiting
C21_Witness ==
    /\ at = "wait"
    /\ close_requested
    /\ ~input_dirty
    /\ opcode = Op(15, 1, 0, 10)
    /\ fault = "none"

\* ---------------------------------------------------------------------------
\* Cycles and input refreshes
\* ---------------------------------------------------------------------------

\* (0xE, _, 0x9, 0xE) SKP Vx and (0xE, _, 0xA, 0x1) SKNP Vx
IsSkpOp(op) == Nibble1(op) = 14 /\ LowByte(op) = \h9E

IsSknpOp(op) == Nibble1(op) = 14 /\ LowByte(op) = \hA1

\* C22: in the run loop cycles and input refreshes alternate strictly: a cycle
\* starts only at the check, is followed by exactly one refresh, and the next
\* check comes only after that refresh; the 16 key states change only in a
\* refresh or inside an Fx0A wait, never in the rest of a cycle; Ex9E and ExA1
\* only read them, so they decide on the key state the last refresh left.
C22_CyclesAndRefreshesAlternate ==
    [][/\ at = "check" => at' \in {"check", "wait", "inputs", "exited"}
       /\ at' \in {"wait", "inputs"} /\ at = "check" => ~close_requested
       /\ at = "wait" => at' \in {"wait", "inputs"}
       /\ at = "inputs" => (at' = "check" /\ UNCHANGED <<pc, v, i, dt, sp, opcode>>)
       /\ at' = "check" => at = "inputs"
       /\ state' # state => at \in {"wait", "inputs"}
       /\ (at = "check" /\ at' = "inputs" /\ IsSkpOp(opcode') /\ v[NibbleX(opcode')] < 16) =>
             /\ pc' = pc + (IF state[v[NibbleX(opcode')]] THEN 4 ELSE 2)
             /\ state' = state
       /\ (at = "check" /\ at' = "inputs" /\ IsSknpOp(opcode') /\ v[NibbleX(opcode')] < 16) =>
             /\ pc' = pc + (IF state[v[NibbleX(opcode')]] THEN 2 ELSE 4)
             /\ state' = state]_vars

\* SKP V1 has skipped on the key that ended the wait of LD V1, K and is still
\* down after the refresh between the two cycles
C22_Witness ==
    /\ at = "inputs"
    /\ opcode = Op(14, 1, 9, 14)
    /\ pc = END_RESERVED + 6
    /\ v[1] = 2
    /\ state[2]
    /\ fault = "none"

\* ---------------------------------------------------------------------------
\* SUB and SUBN over all operand pairs
\* ---------------------------------------------------------------------------

\* SUBN Vx, Vy (8xy7)
SubnOps == {Op(8, x, y, 7) : x \in AluRegs, y \in AluRegs}

InitDiff == Construct({TestRom})

NextDiff ==
    pc < MaxPcAlu /\ \E op \in AluLoads \cup SubOps \cup SubnOps : ProcessOpcode(op)

SpecDiff == InitDiff /\ [][NextDiff]_vars

IsSubnOp(op) == Nibble1(op) = 8 /\ Nibble4(op) = 7

\* C23: for every pair of operand values (x not 0xF), 8xy5 and 8xy7 complete
\* without a fault and leave Vx = (Vx - Vy) mod 256, resp. (Vy - Vx) mod 256,
\* also when the difference of the operands as signed bytes is outside
\* -128..127; 8xy7 yields the VF and Vx that 8xy5 yields with the two operand
\* values swapped.
C23_SubWrapsForEveryPair ==
    [][((IsSubOp(opcode') \/ IsSubnOp(opcode')) /\ NibbleX(opcode') # 15) =>
          LET x == NibbleX(opcode')
              y == NibbleY(opcode')
              swapped == [Cpu EXCEPT !.v = [v EXCEPT ![x] = v[y], ![y] = v[x]]]
          IN  /\ fault' = "none"
              /\ IsSubOp(opcode') => v'[x] = (v[x] - v[y]) % 256
              /\ IsSubnOp(opcode') =>
                    /\ v'[x] = (v[y] - v[x]) % 256
                    /\ v'[x] = op_sub_vx_vy(swapped, x, y).v[x]
                    /\ v'[15] = op_sub_vx_vy(swapped, x, y).v[15]]_vars

\* ---------------------------------------------------------------------------
\* Shifts
\* ---------------------------------------------------------------------------

ShiftBytes == {1, 2, 127, 128, 255}

ShiftLoads == {LdVx(x, kk) : x \in AluRegs, kk \in ShiftBytes}

\* SHR Vx (8xy6) and SHL Vx (8xyE)
ShiftOps == {Op(8, x, y, n) : x \in AluRegs, y \in AluRegs, n \in {6, 14}}

InitShift == Construct({TestRom})

NextShift == pc < MaxPcAlu /\ \E op \in ShiftLoads \cup ShiftOps : ProcessOpcode(op)

SpecShift == InitShift /\ [][NextShift]_vars

IsShrOp(op) == Nibble1(op) = 8 /\ Nibble4(op) = 6

IsShlOp(op) == Nibble1(op) = 8 /\ Nibble4(op) = 14

\* C24: for every x other than 0xF and every value of Vx, 8xy6 sets
\* VF = Vx mod 2 and Vx = Vx div 2; 8xyE sets Vx = (2 * Vx) mod 256 and VF to
\* the masked byte Vx & 0x80, which is 0x80 (not 1) when the high bit was set
\* and 0 otherwise.  The result depends on Vx alone, no register other than Vx
\* and VF changes (Vy included), and neither shift faults.
C24_Shifts ==
    [][((IsShrOp(opcode') \/ IsShlOp(opcode')) /\ NibbleX(opcode') # 15) =>
          LET x == NibbleX(opcode')
          IN  /\ fault' = "none"
              /\ IsShrOp(opcode') => (v'[15] = v[x] % 2 /\ v'[x] = v[x] \div 2)
              /\ IsShlOp(opcode') =>
                    /\ v'[x] = (2 * v[x]) % 256
                    /\ v'[15] = (IF v[x] >= 128 THEN 128 ELSE 0)
              /\ \A r \in 0..15 : r \notin {x, 15} => v'[r] = v[r]
              /\ pc' = pc + 2
              /\ UNCHANGED <<i, sp, stack, dt, ram, memory>>]_vars

\* SHL V0 (with y = 1) has shifted 0xFF: VF is 0x80, V1 is as loaded
C24_Witness ==
    /\ opcode = Op(8, 0, 1, 14)
    /\ v[0] = 254
    /\ v[15] = 128
    /\ v[1] = 127
    /\ fault = "none"

\* ---------------------------------------------------------------------------
\* DRW as an instruction
\* ---------------------------------------------------------------------------

\* process_opcode is no longer called once pc has reached this address
MaxPcSprite == 10

\* VF = 62 and V1 = 31 put a sprite drawn with x = 0xF at column 62, row 31;
\* I is 0, END_RESERVED (the rows of DrawRom) or the last two bytes of ram
SpriteOps ==
    {LdVx(15, 62), LdVx(1, 31), LdI(END_RESERVED), LdI(RAM_SIZE - 2),
     DrwOp(15, 1, 2), DrwOp(15, 1, 0), DrwOp(0, 1, 1)}

InitSprite == Construct({DrawRom})

NextSprite == pc < MaxPcSprite /\ \E op \in SpriteOps : ProcessOpcode(op)

SpecSprite == InitSprite /\ [][NextSprite]_vars

\* C25: Dxyn with I + n <= 4096 draws the n bytes ram[I..I+n-1] as sprite rows
\* at (Vx, Vy), with the values Vx and Vy had before the instruction, then
\* sets VF to 1 if the draw reported a collision and to 0 otherwise; ram, I,
\* sp, the stack and every register other than VF are unchanged; with n = 0
\* the framebuffer is unchanged and VF is 0.
C25_DrwInstruction ==
    [][(IsDrwOp(opcode') /\ i + Nibble4(opcode') <= RAM_SIZE) =>
          \E hits \in {DrwHits(opcode')} :
             \E toggled \in {{DrwCell(opcode', h) : h \in
                               {h \in hits :
                                  Cardinality({g \in hits :
                                     DrwCell(opcode', g) = DrwCell(opcode', h)}) % 2 = 1}}} :
             \E hit \in {\E h \in hits :
                           (memory[DrwCell(opcode', h)]
                              + Cardinality({g \in hits :
                                   /\ DrwBefore(g, h)
                                   /\ DrwCell(opcode', g) = DrwCell(opcode', h)})) % 2 = 1} :
                /\ fault' = "none"
                /\ memory' = [cell \in 0..(DISPLAY_SIZE - 1) |->
                                 IF cell \in toggled THEN 1 - memory[cell]
                                 ELSE memory[cell]]
                /\ v' = [v EXCEPT ![15] = IF hit THEN 1 ELSE 0]
                /\ pc' = pc + 2
                /\ UNCHANGED <<ram, i, sp, stack, dt>>
                /\ Nibble4(opcode') = 0 => (memory' = memory /\ v'[15] = 0)]_vars

\* DRW VF, V1, 2 has drawn the first two rows of DrawRom at column 62, row 31,
\* the column taken from VF as it was before the instruction cleared it
C25_Witness ==
    /\ opcode = DrwOp(15, 1, 2)
    /\ i = END_RESERVED
    /\ v[1] = 31
    /\ v[15] = 0
    /\ ~collision
    /\ memory[0 + 64 * 31] = 1
    /\ memory[62 + 64 * 0] = 1
    /\ fault = "none"

\* ---------------------------------------------------------------------------
\* Nested calls
\* ---------------------------------------------------------------------------

\* the subroutine of depth k starts at address 4 * k
NestTarget(depth) == 4 * depth

\* A chain of subroutines: the code at depth sp calls the subroutine of depth
\* sp + 1 with its first instruction, so the k-th nested CALL is made at
\* address 4 * (k - 1) and the address that follows it is 4 * (k - 1) + 2; a
\* RET can be executed at any time.  Calls nest until the stack faults.
NextNest ==
    \E op \in {CallOp(NestTarget(sp + 1)), RetOp} :
       /\ IsCallOp(op) => pc = NestTarget(sp)
       /\ ProcessOpcode(op)

InitNest == Construct({TestRom})

SpecNest == InitNest /\ [][NextNest]_vars

\* C26: from sp = 0, k <= 16 nested CALLs followed by k RETs return in
\* last-in-first-out order: the RET executed with s entries in use restores pc
\* to the address that follows the s-th CALL and leaves s - 1 entries, so the
\* last RET leaves sp = 0.  A 17th nested CALL (sp = 16) and a RET with
\* sp = 0 end in a fault: no stack slot is written, no pc is read from a slot
\* and execution does not go on with a wrapped sp.
C26_NestedCallsReturnLifo ==
    /\ [](fault = "none" =>
             /\ sp \in 0..16
             /\ \A k \in 1..sp : stack[k - 1] = NestTarget(k - 1) + 2)
    /\ [][/\ (IsCallOp(opcode') /\ sp < 16) =>
                /\ fault' = "none"
                /\ sp' = sp + 1
                /\ pc' = NestTarget(sp + 1)
                /\ stack' = [stack EXCEPT ![sp] = pc + 2]
          /\ (opcode' = RetOp /\ sp > 0) =>
                /\ fault' = "none"
                /\ sp' = sp - 1
                /\ pc' = NestTarget(sp - 1) + 2
                /\ stack' = stack
          /\ (IsCallOp(opcode') /\ sp = 16) =>
                (fault' # "none" /\ stack' = stack /\ sp' = sp /\ pc' = pc + 2)
          /\ (opcode' = RetOp /\ sp = 0) =>
                (fault' # "none" /\ stack' = stack /\ pc' = pc + 2)
          /\ fault # "none" => UNCHANGED vars]_vars

\* sixteen nested CALLs have been followed by sixteen RETs: the last RET has
\* returned to the address after the first CALL
C26_Witness ==
    /\ opcode = RetOp
    /\ sp = 0
    /\ pc = 2
    /\ \A k \in 1..16 : stack[k - 1] = NestTarget(k - 1) + 2
    /\ fault = "none"

\* ---------------------------------------------------------------------------
\* The framebuffer
\* ---------------------------------------------------------------------------

\* process_opcode is no longer called once pc has reached this address
MaxPcScreen == 4

\* CLS (00E0)
ClsOp == Op(0, 0, 14, 0)

\* the plain opcodes, among them CLS and DRW V0, V1, 3 (at I = 0 or 0xABC or
\* END_RESERVED), and a word of every other arm of the match: RET, JP, CALL,
\* SE, SNE, SE Vx Vy, SNE Vx Vy, JP V0, SKP, SKNP and words that match no arm
ScreenOps ==
    PlainOps
    \cup {RetOp, JpOp(\hABC), CallOp(\hABC), Op(3, 1, 10, 11), Op(4, 1, 10, 11),
          Op(5, 0, 1, 0), Op(9, 0, 1, 0), Op(11, 10, 11, 12), Op(14, 0, 9, 14),
          Op(14, 0, 10, 1), Op(0, 1, 2, 3), Op(15, 1, 15, 15)}

InitScreen == Construct({TestRom})

NextScreen == pc < MaxPcScreen /\ \E op \in ScreenOps : ProcessOpcode(op)

SpecScreen == InitScreen /\ [][NextScreen]_vars

\* C27: in every reachable state every cell of the 64 x 32 framebuffer is 0 or
\* 1; only 00E0 and Dxyn modify the framebuffer; after 00E0 every cell is off,
\* and 00E0 changes nothing else but pc, which it advances by 2: registers, I,
\* sp, stack, timer, ram and key states are as before.
C27_Framebuffer ==
    /\ [](/\ DOMAIN memory = 0..(WIDTH * HEIGHT - 1)
          /\ \A cell \in DOMAIN memory : memory[cell] \in {0, 1})
    /\ [][/\ memory' # memory => (opcode' = ClsOp \/ IsDrwOp(opcode'))
          /\ opcode' = ClsOp =>
                /\ fault' = "none"
                /\ \A cell \in DOMAIN memory : memory'[cell] = 0
                /\ pc' = pc + 2
                /\ UNCHANGED <<v, i, sp, stack, dt, ram, state>>]_vars

\* DRW V0, V1, 3 has drawn the top of glyph 0 of the font (0xF0, 0x90, 0x90)
\* at the origin
C27_Witness ==
    /\ opcode = Op(13, 0, 1, 3)
    /\ i = 0
    /\ \A cell \in 0..3 : memory[cell] = 1
    /\ memory[4] = 0
    /\ memory[WIDTH] = 1 /\ memory[WIDTH + 1] = 0
    /\ fault = "none"

\* ---------------------------------------------------------------------------
\* Key indices
\* ---------------------------------------------------------------------------

\* process_opcode is no longer called once pc has reached this address
MaxPcKeys == 6

\* the keys the test presses: the one of cpu.rs tests and the last one
PressedKeys == {1, 15}

\* values of Vx: keys that are pressed or not, and values that are no key
KeyBytes == {0, 1, 15, 16, 255}

KeyOps == {LdVx(1, kk) : kk \in KeyBytes} \cup {Op(14, 1, 9, 14), Op(14, 1, 10, 1)}

\* TestKeyboard::press_key: self.state[key as usize] = true
PressKey(key) ==
    /\ fault = "none"
    /\ ~state[key]
    /\ state' = [state EXCEPT ![key] = TRUE]
    /\ UNCHANGED <<pc, stack, sp, v, i, dt, ram, memory, close_requested, last_input,
                   input_dirty, at, opcode, collision, fault, overflow_checks, rom>>

InitKeys == Construct({TestRom})

NextKeys ==
    \/ \E key \in PressedKeys : PressKey(key)
    \/ pc < MaxPcKeys /\ \E op \in KeyOps : ProcessOpcode(op)

SpecKeys == InitKeys /\ [][NextKeys]_vars

\* C28: Ex9E and ExA1 index the key states with the full value of Vx.  With Vx
\* in 0..15, Ex9E skips (pc + 4) iff key Vx is down and ExA1 skips iff it is
\* up, so on every state exactly one of the two skips, and neither changes the
\* key states or a register; with Vx in 16..255 the lookup is outside the 16
\* key states and the instruction ends in a fault, neither skipping nor not
\* skipping.  (An instruction step is one that moves pc or faults.)
C28_KeyIndexIsFullVx ==
    [][((IsSkpOp(opcode') \/ IsSknpOp(opcode')) /\ (pc' # pc \/ fault' # fault)) =>
          LET key  == v[NibbleX(opcode')]
              skp  == process_opcode(Cpu, Op(14, NibbleX(opcode'), 9, 14), 0, 0)
              sknp == process_opcode(Cpu, Op(14, NibbleX(opcode'), 10, 1), 0, 0)
          IN  /\ key \in 0..15 =>
                    /\ fault' = "none"
                    /\ IsSkpOp(opcode') => pc' = pc + (IF state[key] THEN 4 ELSE 2)
                    /\ IsSknpOp(opcode') => pc' = pc + (IF state[key] THEN 2 ELSE 4)
                    /\ (skp.pc = pc + 4) # (sknp.pc = pc + 4)
                    /\ {skp.pc, sknp.pc} = {pc + 2, pc + 4}
                    /\ UNCHANGED <<state, v, i, sp, stack, dt, ram, memory>>
              /\ key \in 16..255 =>
                    /\ fault' = "OutOfBounds"
                    /\ skp.fault = "OutOfBounds"
                    /\ sknp.fault = "OutOfBounds"]_vars

\* SKP V1 with V1 = 0xFF and key 15 down has ended in the fault of the lookup
C28_Witness ==
    /\ opcode = Op(14, 1, 9, 14)
    /\ v[1] = 255
    /\ state[15]
    /\ fault = "OutOfBounds"

====
